---- MODULE Spec2Model ----
(***************************************************************************)
(* Model of log2duck: the combined-log line parser LogEntry::parse, the    *)
(* two enrichment caches of ParserServices and the driver loop of main.rs. *)
(*                                                                         *)
(* Text is held as TLA+ strings; offsets are the 0-based byte offsets of   *)
(* the Rust code (the input alphabet is ASCII, so every offset is a char   *)
(* boundary and one character is one byte).                                *)
(***************************************************************************)
EXTENDS Integers, Sequences, FiniteSets, TLC

\* ------------------------------------------------------------------------
\* Text helpers
\* ------------------------------------------------------------------------

\* The character at 0-based byte offset i of s.
At(s, i) == SubSeq(s, i + 1, i + 1)

\* s[from..] and s[from..to] with 0-based offsets, as Rust slices.
From(s, from) == SubSeq(s, from + 1, Len(s))
Slice(s, from, to) == SubSeq(s, from + 1, to)

StartsWith(s, p) == Len(s) >= Len(p) /\ SubSeq(s, 1, Len(p)) = p

\* str::find: the 0-based offset of the first occurrence of pattern p in s at
\* or after offset i, or -1.
Min(S) == CHOOSE m \in S : \A n \in S : m <= n
Max(S) == CHOOSE m \in S : \A n \in S : m >= n

Occurrences(s, p, i) ==
    {k \in i..(Len(s) - Len(p)) : SubSeq(s, k + 1, k + Len(p)) = p}

IndexOf(s, p, i) ==
    LET hits == Occurrences(s, p, i)
    IN IF hits = {} THEN -1 ELSE Min(hits)

\* The offset of the last occurrence of the character c in s before offset i,
\* or -1.
LastIndexOf(s, c, i) ==
    LET hits == Occurrences(SubSeq(s, 1, i), c, 0)
    IN IF hits = {} THEN -1 ELSE Max(hits)

Contains(s, p) == Occurrences(s, p, 0) # {}

\* The text made of F(c) for every character c of s, in order.
RECURSIVE MapChars(_, _)
MapChars(F(_), s) ==
    IF Len(s) = 0 THEN ""
    ELSE IF Len(s) = 1 THEN F(s)
    ELSE MapChars(F, SubSeq(s, 1, Len(s) \div 2))
           \o MapChars(F, SubSeq(s, Len(s) \div 2 + 1, Len(s)))

None == <<>>
Some(x) == <<x>>

Digits == "0123456789"
HexDigits == "0123456789abcdef"
IsDigit(c) == c \in {"0", "1", "2", "3", "4", "5", "6", "7", "8", "9"}
IsHexDigit(c) == IsDigit(c) \/ c \in {"a", "b", "c", "d", "e", "f"}
AllDigits(s) == Len(s) > 0 /\ \A i \in 0..(Len(s) - 1) : IsDigit(At(s, i))
AllHexDigits(s) == Len(s) > 0 /\ \A i \in 0..(Len(s) - 1) : IsHexDigit(At(s, i))
DigitVal(c) == IndexOf(HexDigits, c, 0)

\* Value of a digit string in the given radix (most significant digit first).
RECURSIVE NumVal(_, _)
NumVal(s, radix) ==
    IF Len(s) = 0 THEN 0
    ELSE NumVal(SubSeq(s, 1, Len(s) - 1), radix) * radix + DigitVal(At(s, Len(s) - 1))

\* Rendering of a natural number in the given radix, without leading zeros.
RECURSIVE NumStr(_, _)
NumStr(n, radix) ==
    IF n < radix THEN At(HexDigits, n)
    ELSE NumStr(n \div radix, radix) \o At(HexDigits, n % radix)

\* The pieces of s between the occurrences of the one-character separator.
RECURSIVE Split(_, _)
Split(s, sep) ==
    LET i == IndexOf(s, sep, 0)
    IN IF i < 0 THEN <<s>> ELSE <<Slice(s, 0, i)>> \o Split(From(s, i + 1), sep)

\* ------------------------------------------------------------------------
\* Field Cursor
\* ------------------------------------------------------------------------

\* find(start, line, pattern): line[start..] aborts when start is past the
\* end of the line; otherwise the slice up to the first match and the offset
\* of the match, or Err when the pattern does not occur.
find(start, line, pattern) ==
    IF start > Len(line) THEN [st |-> "panic", s |-> "", end |-> 0]
    ELSE LET end == IndexOf(line, pattern, start)
         IN IF end < 0 THEN [st |-> "err", s |-> "", end |-> 0]
            ELSE [st |-> "ok", s |-> Slice(line, start, end), end |-> end]

space == " "
quote == "\""
bracket == "]"
http == " HTTP/"

\* ------------------------------------------------------------------------
\* Closed enumerations
\* ------------------------------------------------------------------------

HttpMethods == {"GET", "POST", "PUT", "DELETE", "HEAD", "OPTIONS", "CONNECT", "TRACE", "PATCH"}
HttpMethod_new(method) == IF method \in HttpMethods THEN Some(method) ELSE None

HttpVersions == {"HTTP/1.0", "HTTP/1.1", "HTTP/2.0", "HTTP/3.0"}
HttpVersion_new(version) == IF version \in HttpVersions THEN Some(version) ELSE None

\* ------------------------------------------------------------------------
\* IpAddr: `ip.parse()` and `ip.to_string()`
\* ------------------------------------------------------------------------
\* Modelled on dotted-quad IPv4 text and on IPv6 text of the form "::" or
\* "::" followed by one group of 1 to 4 lowercase hex digits; any other text
\* is not an address.  An address is its family and its segments.

NoIp == [ok |-> FALSE, v |-> 0, segs |-> <<>>]

Ipv4Octet(s) ==
    /\ AllDigits(s)
    /\ Len(s) <= 3
    /\ (Len(s) > 1 => At(s, 0) # "0")
    /\ NumVal(s, 10) <= 255

Ipv4_parse(s) ==
    LET parts == Split(s, ".")
    IN IF Len(parts) = 4 /\ \A k \in 1..4 : Ipv4Octet(parts[k])
       THEN [ok |-> TRUE, v |-> 4, segs |-> [k \in 1..4 |-> NumVal(parts[k], 10)]]
       ELSE NoIp

Ipv6_parse(s) ==
    IF ~StartsWith(s, "::") THEN NoIp
    ELSE LET group == From(s, 2)
         IN IF group = "" THEN [ok |-> TRUE, v |-> 6, segs |-> <<0>>]
            ELSE IF AllHexDigits(group) /\ Len(group) <= 4
                 THEN [ok |-> TRUE, v |-> 6, segs |-> <<NumVal(group, 16)>>]
                 ELSE NoIp

IpAddr_parse(s) ==
    IF Ipv4_parse(s).ok THEN Ipv4_parse(s) ELSE Ipv6_parse(s)

\* The canonical text of an address: leading zeros of a hex group are not
\* kept, and the all-zero address is "::".
IpAddr_to_string(ip) ==
    IF ip.v = 4
    THEN NumStr(ip.segs[1], 10) \o "." \o NumStr(ip.segs[2], 10) \o "."
           \o NumStr(ip.segs[3], 10) \o "." \o NumStr(ip.segs[4], 10)
    ELSE IF ip.segs[1] = 0 THEN "::" ELSE "::" \o NumStr(ip.segs[1], 16)

\* ------------------------------------------------------------------------
\* DateTime::parse_from_str(.., "%d/%b/%Y:%H:%M:%S %z") and with_timezone(Utc)
\* ------------------------------------------------------------------------
\* Modelled on the fixed-width text dd/Mon/yyyy:HH:MM:SS +zzzz.  The format
\* has no sub-second part, so an instant is held as whole seconds since the
\* epoch; timestamp_micros() is that number times one million.

MonthNames == <<"Jan", "Feb", "Mar", "Apr", "May", "Jun",
                "Jul", "Aug", "Sep", "Oct", "Nov", "Dec">>

IsLeapYear(y) == (y % 4 = 0 /\ y % 100 # 0) \/ y % 400 = 0

DaysInMonth(y, m) ==
    IF m = 2 THEN (IF IsLeapYear(y) THEN 29 ELSE 28)
    ELSE IF m \in {4, 6, 9, 11} THEN 30 ELSE 31

\* Days from 1970-01-01 to the civil date y-m-d.
DaysFromCivil(y, m, d) ==
    LET yy == IF m <= 2 THEN y - 1 ELSE y
        era == yy \div 400
        yoe == yy - era * 400
        mp == IF m > 2 THEN m - 3 ELSE m + 9
        doy == (153 * mp + 2) \div 5 + d - 1
        doe == yoe * 365 + yoe \div 4 - yoe \div 100 + doy
    IN era * 146097 + doe - 719468

NoDateTime == [ok |-> FALSE, secs |-> 0]

DateTime_parse(s) ==
    IF ~(/\ Len(s) = 26
         /\ AllDigits(Slice(s, 0, 2)) /\ At(s, 2) = "/"
         /\ (\E m \in 1..12 : MonthNames[m] = Slice(s, 3, 6)) /\ At(s, 6) = "/"
         /\ AllDigits(Slice(s, 7, 11)) /\ At(s, 11) = ":"
         /\ AllDigits(Slice(s, 12, 14)) /\ At(s, 14) = ":"
         /\ AllDigits(Slice(s, 15, 17)) /\ At(s, 17) = ":"
         /\ AllDigits(Slice(s, 18, 20)) /\ At(s, 20) = " "
         /\ At(s, 21) \in {"+", "-"}
         /\ AllDigits(Slice(s, 22, 26)))
    THEN NoDateTime
    ELSE LET day == NumVal(Slice(s, 0, 2), 10)
             month == CHOOSE m \in 1..12 : MonthNames[m] = Slice(s, 3, 6)
             year == NumVal(Slice(s, 7, 11), 10)
             hour == NumVal(Slice(s, 12, 14), 10)
             minute == NumVal(Slice(s, 15, 17), 10)
             second == NumVal(Slice(s, 18, 20), 10)
             offHour == NumVal(Slice(s, 22, 24), 10)
             offMin == NumVal(Slice(s, 24, 26), 10)
             offset == (IF At(s, 21) = "-" THEN -1 ELSE 1) * (offHour * 3600 + offMin * 60)
         IN IF /\ day >= 1 /\ day <= DaysInMonth(year, month)
               /\ hour <= 23 /\ minute <= 59 /\ second <= 59 /\ offMin <= 59
            THEN [ok |-> TRUE,
                  secs |-> DaysFromCivil(year, month, day) * 86400
                            + hour * 3600 + minute * 60 + second - offset]
            ELSE NoDateTime

\* Variant: the comparison with the watermark made strict.
AtOrBelowWatermark_Strict(secs, watermark) ==
    \/ secs < watermark.secs
    \/ secs = watermark.secs /\ 0 < watermark.micros

\* timestamp.timestamp_micros() <= config.timestamp, for an instant of whole
\* seconds and a watermark held as seconds and remaining microseconds.
AtOrBelowWatermark(secs, watermark) ==
    \/ secs < watermark.secs
    \/ secs = watermark.secs /\ 0 <= watermark.micros

\* ------------------------------------------------------------------------
\* Url: Url::parse, Url::join, path(), query(), query_pairs(), origin()
\* ------------------------------------------------------------------------
\* Modelled on references made of a lowercase scheme, an authority
\* (userinfo, host name, decimal port), a path, a query and a fragment.
\* Host names are registered names or canonical dotted quads.

UpperLetters == "ABCDEFGHIJKLMNOPQRSTUVWXYZ"
LowerLetters == "abcdefghijklmnopqrstuvwxyz"

ToLowerChar(c) ==
    IF Contains(UpperLetters, c)
    THEN At(LowerLetters, IndexOf(UpperLetters, c, 0))
    ELSE c

to_lowercase(s) == MapChars(ToLowerChar, s)

RECURSIVE TrimStart(_)
TrimStart(s) == IF StartsWith(s, " ") THEN TrimStart(From(s, 1)) ELSE s

RECURSIVE TrimEnd(_)
TrimEnd(s) ==
    IF s # "" /\ At(s, Len(s) - 1) = " " THEN TrimEnd(Slice(s, 0, Len(s) - 1)) ELSE s

RECURSIVE StripSlashes(_)
StripSlashes(s) == IF StartsWith(s, "/") THEN StripSlashes(From(s, 1)) ELSE s

ReplaceChar(s, a, b) ==
    LET Replaced(c) == IF c = a THEN b ELSE c
    IN MapChars(Replaced, s)

\* Offset of the first character of s that is in cs, or Len(s).
FirstOf(s, cs) == Min({k \in 0..(Len(s) - 1) : At(s, k) \in cs} \cup {Len(s)})

\* Percent-encoding of the characters of the path and query encode sets.
PctCodes == <<<<" ", "%20">>, <<"\"", "%22">>, <<"<", "%3C">>, <<">", "%3E">>,
              <<"{", "%7B">>, <<"}", "%7D">>, <<"'", "%27">>>>
PathEncodeSet == {" ", "\"", "<", ">", "{", "}"}
SpecialQueryEncodeSet == {" ", "\"", "<", ">", "'"}
PctCode(c) == (CHOOSE k \in 1..Len(PctCodes) : PctCodes[k][1] = c)

PercentEncode(s, set) ==
    LET Encoded(c) == IF c \in set THEN PctCodes[PctCode(c)][2] ELSE c
    IN MapChars(Encoded, s)

\* form_urlencoded decoding: "+" is a space and %XX is the encoded character
\* (the text is cut at its "%" signs, and each piece decoded from its head).
DecodePiece(piece) ==
    LET Plus(c) == IF c = "+" THEN " " ELSE c
        escaped == "%" \o SubSeq(piece, 1, 2)
    IN IF Len(piece) >= 2 /\ \E k \in 1..Len(PctCodes) : PctCodes[k][2] = escaped
       THEN PctCodes[CHOOSE k \in 1..Len(PctCodes) : PctCodes[k][2] = escaped][1]
              \o MapChars(Plus, From(piece, 2))
       ELSE "%" \o MapChars(Plus, piece)

RECURSIVE Concat(_)
Concat(pieces) == IF pieces = <<>> THEN "" ELSE Head(pieces) \o Concat(Tail(pieces))

FormDecode(s) ==
    LET Plus(c) == IF c = "+" THEN " " ELSE c
        pieces == Split(s, "%")
    IN MapChars(Plus, pieces[1])
         \o Concat([k \in 1..(Len(pieces) - 1) |-> DecodePiece(pieces[k + 1])])

\* url.query_pairs().collect::<HashMap>(): the last value of a key wins.
QueryPairs(query) ==
    LET pieces == Split(query, "&")
        idx == {k \in 1..Len(pieces) : pieces[k] # ""}
        eq(k) == FirstOf(pieces[k], {"="})
        key(k) == FormDecode(Slice(pieces[k], 0, eq(k)))
        val(k) == FormDecode(From(pieces[k], eq(k) + 1))
    IN [name \in {key(k) : k \in idx} |->
          val(Max({k \in idx : key(k) = name}))]

\* Removal of "." and ".." segments of a path that starts with "/".
RECURSIVE RemoveDots(_, _, _)
RemoveDots(segs, k, out) ==
    IF k > Len(segs) THEN out
    ELSE LET last == IF k = Len(segs) THEN <<"">> ELSE <<>>
         IN IF segs[k] = ".."
            THEN RemoveDots(segs, k + 1,
                            (IF out = <<>> THEN out ELSE SubSeq(out, 1, Len(out) - 1)) \o last)
            ELSE IF segs[k] = "."
            THEN RemoveDots(segs, k + 1, out \o last)
            ELSE RemoveDots(segs, k + 1, Append(out, segs[k]))

RECURSIVE JoinSegments(_)
JoinSegments(segs) ==
    IF segs = <<>> THEN "" ELSE "/" \o Head(segs) \o JoinSegments(Tail(segs))

NormalisePath(path) ==
    LET segs == RemoveDots(Split(From(path, 1), "/"), 1, <<>>)
    IN IF segs = <<>> THEN "/" ELSE PercentEncode(JoinSegments(segs), PathEncodeSet)

SpecialSchemes == {"http", "https", "ws", "wss", "ftp"}
DefaultPort(scheme) ==
    IF scheme \in {"http", "ws"} THEN 80 ELSE IF scheme \in {"https", "wss"} THEN 443 ELSE 21

SchemeChars == {At(LowerLetters, i) : i \in 0..25} \cup {At(Digits, i) : i \in 0..9}
                 \cup {"+", "-", "."}
ForbiddenHostChars == {" ", "<", ">", "[", "]", "^", "|", "%"}

\* The scheme of a reference: the text before the first ":" when it starts
\* with a letter and is made of scheme characters.
SchemeEnd(input) ==
    LET c == FirstOf(input, {":"})
    IN IF /\ c < Len(input) /\ c >= 1
          /\ Contains(LowerLetters, At(input, 0))
          /\ \A i \in 0..(c - 1) : At(input, i) \in SchemeChars
       THEN c ELSE -1

NoUrl == [ok |-> FALSE, scheme |-> "", host |-> None, port |-> None,
          path |-> "", query |-> None]

HostOk(host) ==
    /\ host # ""
    /\ \A i \in 0..(Len(host) - 1) : At(host, i) \notin ForbiddenHostChars
    /\ LET labels == Split(host, ".")
       IN AllDigits(labels[Len(labels)]) => Ipv4_parse(host).ok

PortOk(txt) == txt = "" \/ (AllDigits(txt) /\ Len(txt) <= 5 /\ NumVal(txt, 10) <= 65535)

EncodeQuery(query) ==
    IF query = None THEN None ELSE Some(PercentEncode(query[1], SpecialQueryEncodeSet))

\* The authority and path of a special URL; rest starts at the authority.
ParseAuthority(scheme, rest, query) ==
    LET aEnd == FirstOf(rest, {"/"})
        auth == Slice(rest, 0, aEnd)
        after == From(rest, aEnd)
        hostport == IF Contains(auth, "@")
                    THEN From(auth, LastIndexOf(auth, "@", Len(auth)) + 1) ELSE auth
        cPos == FirstOf(hostport, {":"})
        host == to_lowercase(Slice(hostport, 0, cPos))
        portTxt == From(hostport, cPos + 1)
    IN IF ~HostOk(host) \/ ~PortOk(portTxt) THEN NoUrl
       ELSE [ok |-> TRUE, scheme |-> scheme, host |-> Some(host),
             port |-> IF portTxt = "" \/ NumVal(portTxt, 10) = DefaultPort(scheme)
                      THEN None ELSE Some(NumVal(portTxt, 10)),
             path |-> IF after = "" THEN "/" ELSE NormalisePath(after),
             query |-> EncodeQuery(query)]

\* Url::parse(input) when base = None, base.join(input) when base = Some(url).
Url_parse(input, base) ==
    LET trimmed == TrimEnd(TrimStart(input))
        noFrag == Slice(trimmed, 0, FirstOf(trimmed, {"#"}))
        qPos == FirstOf(noFrag, {"?"})
        query == IF qPos < Len(noFrag) THEN Some(From(noFrag, qPos + 1)) ELSE None
        rawPath == Slice(noFrag, 0, qPos)
        sEnd == SchemeEnd(rawPath)
    IN IF sEnd >= 0
       THEN LET scheme == Slice(rawPath, 0, sEnd)
                rest == ReplaceChar(From(rawPath, sEnd + 1), "\\", "/")
            IN IF scheme \notin SpecialSchemes
               THEN [ok |-> TRUE, scheme |-> scheme, host |-> None, port |-> None,
                     path |-> From(rawPath, sEnd + 1), query |-> query]
               ELSE IF base # None /\ base[1].scheme = scheme /\ ~StartsWith(rest, "//")
               THEN \* a reference relative to a base of the same scheme
                    IF rest = ""
                    THEN [base[1] EXCEPT !.query = IF query = None THEN @ ELSE EncodeQuery(query)]
                    ELSE [base[1] EXCEPT
                            !.path = NormalisePath(
                                IF StartsWith(rest, "/") THEN rest
                                ELSE Slice(@, 0, LastIndexOf(@, "/", Len(@)) + 1) \o rest),
                            !.query = EncodeQuery(query)]
               ELSE ParseAuthority(scheme, StripSlashes(rest), query)
       ELSE IF base = None THEN NoUrl
       ELSE LET rest == ReplaceChar(rawPath, "\\", "/")
            IN IF rest = ""
               THEN [base[1] EXCEPT !.query = IF query = None THEN @ ELSE EncodeQuery(query)]
               ELSE IF StartsWith(rest, "//")
               THEN ParseAuthority(base[1].scheme, StripSlashes(rest), query)
               ELSE [base[1] EXCEPT
                       !.path = NormalisePath(
                           IF StartsWith(rest, "/") THEN rest
                           ELSE Slice(@, 0, LastIndexOf(@, "/", Len(@)) + 1) \o rest),
                       !.query = EncodeQuery(query)]

\* url.origin(): scheme, host and effective port of a special URL, an opaque
\* origin otherwise.
Url_origin(url) ==
    IF url.scheme \in SpecialSchemes
    THEN [scheme |-> url.scheme, host |-> url.host,
          port |-> IF url.port = None THEN DefaultPort(url.scheme) ELSE url.port[1]]
    ELSE [scheme |-> "opaque", host |-> None, port |-> 0]

\* Path::new(path).extension() in lowercase: the text after the last "." of
\* the last non-empty segment, unless that segment has no "." after its
\* first character.
Extension(path) ==
    LET segs == Split(path, "/")
        named == {k \in 1..Len(segs) : segs[k] # "" /\ segs[k] # "."}
    IN IF named = {} THEN None
       ELSE LET name == segs[Max(named)]
                dot == LastIndexOf(name, ".", Len(name))
            IN IF name = ".." \/ dot <= 0 THEN None
               ELSE Some(to_lowercase(From(name, dot + 1)))

\* ------------------------------------------------------------------------
\* Integer fields: str::parse::<u16>() and str::parse::<usize>()
\* ------------------------------------------------------------------------

RECURSIVE StripZeros(_)
StripZeros(s) == IF Len(s) > 1 /\ At(s, 0) = "0" THEN StripZeros(From(s, 1)) ELSE s

\* a <= b for two digit strings of the same length.
RECURSIVE DigitsLeq(_, _)
DigitsLeq(a, b) ==
    \/ a = ""
    \/ DigitVal(At(a, 0)) < DigitVal(At(b, 0))
    \/ At(a, 0) = At(b, 0) /\ DigitsLeq(From(a, 1), From(b, 1))

\* The digits of an unsigned decimal literal (one leading "+" allowed)
\* without leading zeros, or None.
UnsignedDigits(s) ==
    LET body == IF StartsWith(s, "+") THEN From(s, 1) ELSE s
    IN IF AllDigits(body) THEN Some(StripZeros(body)) ELSE None

U16Max == "65535"
UsizeMax == "18446744073709551615"

FitsIn(digits, max) ==
    Len(digits) < Len(max) \/ (Len(digits) = Len(max) /\ DigitsLeq(digits, max))

\* u16: the number; usize: its decimal rendering, as it exceeds the range of
\* the checker's integers.
U16_parse(s) ==
    LET d == UnsignedDigits(s)
    IN IF d # None /\ FitsIn(d[1], U16Max) THEN Some(NumVal(d[1], 10)) ELSE None

Usize_parse(s) ==
    LET d == UnsignedDigits(s)
    IN IF d # None /\ FitsIn(d[1], UsizeMax) THEN d ELSE None

\* ------------------------------------------------------------------------
\* LogError and the result of LogEntry::parse
\* ------------------------------------------------------------------------

LogError_new(line, error) == [filter |-> FALSE, line |-> line, error |-> error]
LogError_new_filtered(line) == [filter |-> TRUE, line |-> line, error |-> ""]
is_filtered(error) == error.filter

\* impl Display for LogError
LogError_fmt(error) == "Invalid entry: " \o error.line \o " (" \o error.error \o ")"

NoError == [filter |-> FALSE, line |-> "", error |-> ""]
NoEntry == [line |-> ""]

\* Ok(entry), Err(error), or the abort of the call by a slice out of range.
Ok(entry) == [tag |-> "Ok", entry |-> entry, err |-> NoError]
Err(error) == [tag |-> "Err", entry |-> NoEntry, err |-> error]
Panic == [tag |-> "panic", entry |-> NoEntry, err |-> NoError]

\* The outcome of find(..).map_err(|_| LogError::new(&line, reason))? when
\* find did not return a slice.
FindFailure(found, line, reason) ==
    IF found.st = "panic" THEN Panic ELSE Err(LogError_new(line, reason))

\* ------------------------------------------------------------------------
\* ParserServices: the two enrichment caches
\* ------------------------------------------------------------------------
\* An Agent is held as its browser, os and device families (the version
\* parts, brand and model are carried like the family they belong to); a
\* GeoLocation as its country and continent (asn, as_name, as_domain
\* likewise).  services is the record of the two caches and of the number of
\* calls made to each underlying service per key.

Agent_new == [browser |-> None, os |-> None, device |-> None]

Agent_from(ua, os, device) ==
    [browser |-> ua, os |-> os, device |-> device]

\* Variant: the signature spelled as the browser token it imitates.
Mozlila_Typo == "Mozilla"

Mozlila == "Mozlila"
Spider == "Spider"

\* self.agents_parser.extract(user_agent): the extractor is a fixed function
\* of the raw string.
Extract(parser, user_agent) == parser[user_agent]

\* HashMap::insert, and the count of one more call of a service for a key.
Insert(map, key, value) ==
    [k \in DOMAIN map \cup {key} |-> IF k = key THEN value ELSE map[k]]
Count(calls, key) ==
    Insert(calls, key, IF key \in DOMAIN calls THEN calls[key] + 1 ELSE 1)

\* Variant: the cache keeps the agent as extracted, and only the value
\* returned by the first call carries the override.
get_agent_StoreRaw(services, parser, user_agent) ==
    IF user_agent \notin DOMAIN services.agents
    THEN LET x == Extract(parser, user_agent)
             agent == Agent_from(x.ua, x.os, x.device)
             stored == IF Contains(user_agent, Mozlila)
                       THEN [agent EXCEPT !.device = Some(Spider)]
                       ELSE agent
         IN [services |-> [services EXCEPT
                             !.agents = Insert(@, user_agent, agent),
                             !.extracts = Count(@, user_agent)],
             value |-> stored]
    ELSE [services |-> services, value |-> services.agents[user_agent]]

get_agent(services, parser, user_agent) ==
    IF user_agent \notin DOMAIN services.agents
    THEN LET x == Extract(parser, user_agent)
             agent == Agent_from(x.ua, x.os, x.device)
             stored == IF Contains(user_agent, Mozlila)
                       THEN [agent EXCEPT !.device = Some(Spider)]
                       ELSE agent
         IN [services |-> [services EXCEPT
                             !.agents = Insert(@, user_agent, stored),
                             !.extracts = Count(@, user_agent)],
             value |-> stored]
    ELSE [services |-> services, value |-> services.agents[user_agent]]

GeoLocation_new == [country |-> None, continent |-> None]

\* self.ip_reader.lookup(ip): Err for an address the database does not hold.
parse_geolocation(reader, ip) ==
    IF IpAddr_to_string(ip) \in DOMAIN reader
    THEN [GeoLocation_new EXCEPT !.continent = reader[IpAddr_to_string(ip)].continent,
                                 !.country = reader[IpAddr_to_string(ip)].country]
    ELSE GeoLocation_new

\* Variant: the database is read on every call.
get_geolocation_Uncached(services, reader, ip) ==
    LET key == IpAddr_to_string(ip)
        geolocation == parse_geolocation(reader, ip)
    IN [services |-> [services EXCEPT
                        !.geolocations = Insert(@, key, geolocation),
                        !.lookups = Count(@, key)],
        value |-> geolocation]

get_geolocation(services, reader, ip) ==
    LET key == IpAddr_to_string(ip)
    IN IF key \notin DOMAIN services.geolocations
       THEN LET geolocation == parse_geolocation(reader, ip)
            IN [services |-> [services EXCEPT
                                !.geolocations = Insert(@, key, geolocation),
                                !.lookups = Count(@, key)],
                value |-> geolocation]
       ELSE [services |-> services, value |-> services.geolocations[key]]

ParserServices_new ==
    [agents |-> <<>>, geolocations |-> <<>>, extracts |-> <<>>, lookups |-> <<>>]

\* ------------------------------------------------------------------------
\* LogEntry::parse
\* ------------------------------------------------------------------------
\* config is [timestamp |-> watermark, origin |-> url].  Each stage below is
\* one commented block of the function; it gets the cursor left by the stage
\* before it and the fields read so far.

ParseConfig_new(timestamp, origin) ==
    [timestamp |-> timestamp, origin |-> Url_parse(origin, None)]

\* Variant: a line without user agent has its address read from the
\* database without going through the cache.
Enrich_NoAddress(line, services, parser, reader, f) ==
    LET a == IF f.user_agent = None
             THEN [services |-> services, value |-> Agent_new]
             ELSE get_agent(services, parser, f.user_agent[1])
        g == IF f.user_agent = None
             THEN [services |-> services, value |-> parse_geolocation(reader, f.ip)]
             ELSE get_geolocation(a.services, reader, f.ip)
    IN [services |-> g.services,
        result |-> Ok([line |-> line,
                       ip |-> f.ip, identity |-> f.identity, user |-> f.user,
                       timestamp |-> f.timestamp, method |-> f.method,
                       path |-> f.path, extension |-> f.extension,
                       query |-> f.query, parsed_query |-> f.parsed_query,
                       http_version |-> f.http_version,
                       status_code |-> f.status_code, size |-> f.size,
                       referer |-> f.referer, referer_origin |-> f.referer_origin,
                       referer_path |-> f.referer_path,
                       referer_query |-> f.referer_query,
                       referer_parsed_query |-> f.referer_parsed_query,
                       user_agent |-> f.user_agent,
                       browser |-> a.value.browser, os |-> a.value.os,
                       device |-> a.value.device,
                       country |-> g.value.country,
                       continent |-> g.value.continent])]

\* Parse agent data, parse geolocation, Ok(LogEntry { .. })
Enrich(line, services, parser, reader, f) ==
    LET a == IF f.user_agent = None
             THEN [services |-> services, value |-> Agent_new]
             ELSE get_agent(services, parser, f.user_agent[1])
        g == get_geolocation(a.services, reader, f.ip)
    IN [services |-> g.services,
        result |-> Ok([line |-> line,
                       ip |-> f.ip, identity |-> f.identity, user |-> f.user,
                       timestamp |-> f.timestamp, method |-> f.method,
                       path |-> f.path, extension |-> f.extension,
                       query |-> f.query, parsed_query |-> f.parsed_query,
                       http_version |-> f.http_version,
                       status_code |-> f.status_code, size |-> f.size,
                       referer |-> f.referer, referer_origin |-> f.referer_origin,
                       referer_path |-> f.referer_path,
                       referer_query |-> f.referer_query,
                       referer_parsed_query |-> f.referer_parsed_query,
                       user_agent |-> f.user_agent,
                       browser |-> a.value.browser, os |-> a.value.os,
                       device |-> a.value.device,
                       country |-> g.value.country,
                       continent |-> g.value.continent])]

\* A stage that ends the call before the enrichment: the fields, or the
\* result returned early.
Fields(f) == [done |-> FALSE, fields |-> f, result |-> Panic]
Return(result) == [done |-> TRUE, fields |-> [ip |-> NoIp], result |-> result]

\* Parse user agent
ParseUserAgent(line, next, f) ==
    LET found == find(next + 3, line, quote)
    IN IF found.st # "ok" THEN Return(FindFailure(found, line, "User agent not found"))
       ELSE Fields(f @@ [user_agent |-> IF found.s = "" THEN None ELSE Some(found.s)])

\* Variant: a referer that is not a URL ends the call with an error.
ParseReferer_Fatal(line, next, f) ==
    LET found == find(next + 2, line, quote)
        Referer(url) ==
            IF ~url.ok THEN Return(Err(LogError_new(line, "Invalid referer")))
            ELSE ParseUserAgent(line, found.end,
                   f @@ [referer |-> Some(url),
                         referer_origin |-> Some(Url_origin(url)),
                         referer_path |-> Some(url.path),
                         referer_query |-> url.query,
                         referer_parsed_query |->
                             IF url.query = None THEN None
                             ELSE Some(QueryPairs(url.query[1]))])
    IN IF found.st # "ok" THEN Return(FindFailure(found, line, "Referer not found"))
       ELSE Referer(Url_parse(found.s, None))

\* Parse referer
ParseReferer(line, next, f) ==
    LET found == find(next + 2, line, quote)
        Referer(url) ==
            [referer |-> IF url.ok THEN Some(url) ELSE None,
             referer_origin |-> IF url.ok THEN Some(Url_origin(url)) ELSE None,
             referer_path |-> IF url.ok THEN Some(url.path) ELSE None,
             referer_query |-> IF url.ok THEN url.query ELSE None,
             referer_parsed_query |->
                 IF url.ok /\ url.query # None
                 THEN Some(QueryPairs(url.query[1])) ELSE None]
    IN IF found.st # "ok" THEN Return(FindFailure(found, line, "Referer not found"))
       ELSE ParseUserAgent(line, found.end, f @@ Referer(Url_parse(found.s, None)))

\* Parse size
ParseSize(line, next, f) ==
    LET found == find(next + 1, line, space)
    IN IF found.st # "ok" THEN Return(FindFailure(found, line, "Size not found"))
       ELSE IF Usize_parse(found.s) = None
       THEN Return(Err(LogError_new(line, "Invalid size")))
       ELSE ParseReferer(line, found.end, f @@ [size |-> Usize_parse(found.s)[1]])

\* Parse status code
ParseStatusCode(line, next, f) ==
    LET found == find(next + 2, line, space)
    IN IF found.st # "ok" THEN Return(FindFailure(found, line, "Status code not found"))
       ELSE IF U16_parse(found.s) = None
       THEN Return(Err(LogError_new(line, "Invalid status code")))
       ELSE ParseSize(line, found.end, f @@ [status_code |-> U16_parse(found.s)[1]])

\* Parse HTTP version
ParseHttpVersion(line, next, f) ==
    LET found == find(next + 1, line, quote)
    IN IF found.st # "ok" THEN Return(FindFailure(found, line, "HTTP version not found"))
       ELSE IF HttpVersion_new(found.s) = None
       THEN Return(Err(LogError_new(line, "Invalid HTTP version")))
       ELSE ParseStatusCode(line, found.end,
                            f @@ [http_version |-> HttpVersion_new(found.s)[1]])

\* Variant: every doubled slash of the request target is collapsed.
RECURSIVE CollapseEverySlash(_)
CollapseEverySlash(fullpath) ==
    LET at == IndexOf(fullpath, "//", 0)
    IN IF at < 0 THEN fullpath
       ELSE CollapseEverySlash(Slice(fullpath, 0, at) \o From(fullpath, at + 1))

\* while fullpath.starts_with("//") { fullpath = fullpath.replacen("//", "/", 1) }
RECURSIVE CollapseLeadingSlashes(_)
CollapseLeadingSlashes(fullpath) ==
    IF StartsWith(fullpath, "//")
    THEN CollapseLeadingSlashes("/" \o From(fullpath, 2))
    ELSE fullpath

\* Variant: the origins (scheme, host and port) are compared.
DifferentHost_Origin(url, origin) == Url_origin(url) # Url_origin(origin)

\* url.host_str() != config.origin.host_str()
DifferentHost(url, origin) == url.host # origin.host

\* Parse path, query and extension
ParsePath(line, config, next, f) ==
    LET found == find(next + 1, line, http)
        Joined(url) ==
            IF ~url.ok THEN Return(Err(LogError_new(line, "Path not valid")))
            ELSE IF DifferentHost(url, config.origin)
            THEN Return(Err(LogError_new(line, "Path has a different host")))
            ELSE ParseHttpVersion(line, found.end,
                   f @@ [path |-> url.path,
                         query |-> url.query,
                         parsed_query |->
                             IF url.query = None THEN None
                             ELSE Some(QueryPairs(url.query[1])),
                         extension |-> Extension(url.path)])
    IN IF found.st # "ok" THEN Return(FindFailure(found, line, "Path not found"))
       ELSE Joined(Url_parse(CollapseLeadingSlashes(found.s), Some(config.origin)))

\* Variant: the method is validated after all the fields that follow it.
ParseMethod_Last(line, config, next, f) ==
    LET found == find(next + 3, line, space)
        Checked(rest) ==
            IF rest.done THEN rest
            ELSE IF HttpMethod_new(found.s) = None
            THEN Return(Err(LogError_new(line, "Invalid HTTP method")))
            ELSE rest
    IN IF found.st # "ok" THEN Return(FindFailure(found, line, "HTTP method not found"))
       ELSE Checked(ParsePath(line, config, found.end, f @@ [method |-> found.s]))

\* Parse method
ParseMethod(line, config, next, f) ==
    LET found == find(next + 3, line, space)
    IN IF found.st # "ok" THEN Return(FindFailure(found, line, "HTTP method not found"))
       ELSE IF HttpMethod_new(found.s) = None
       THEN Return(Err(LogError_new(line, "Invalid HTTP method")))
       ELSE ParsePath(line, config, found.end, f @@ [method |-> HttpMethod_new(found.s)[1]])

\* The request between the quotes; the cursor stays before it.
ParseRequest(line, config, next, f) ==
    LET found == find(next + 3, line, quote)
    IN IF found.st # "ok" THEN Return(FindFailure(found, line, "Request not found"))
       ELSE IF Len(found.s) = 0 THEN Return(Err(LogError_new(line, "Empty request")))
       ELSE ParseMethod(line, config, next, f)

\* Parse timestamp, and the watermark filter
ParseTimestamp(line, config, next, f) ==
    LET found == find(next + 2, line, bracket)
    IN IF found.st # "ok" THEN Return(FindFailure(found, line, "Datetime not found"))
       ELSE LET timestamp == DateTime_parse(found.s)
            IN IF ~timestamp.ok THEN Return(Err(LogError_new(line, "Invalid datetime")))
               ELSE IF AtOrBelowWatermark(timestamp.secs, config.timestamp)
               THEN Return(Err(LogError_new_filtered(line)))
               ELSE ParseRequest(line, config, found.end,
                                 f @@ [timestamp |-> timestamp.secs])

\* Parse user
ParseUser(line, config, next, f) ==
    LET found == find(next + 1, line, space)
    IN IF found.st # "ok" THEN Return(FindFailure(found, line, "User not found"))
       ELSE ParseTimestamp(line, config, found.end,
                           f @@ [user |-> IF found.s = "-" THEN None ELSE Some(found.s)])

\* Parse identity
ParseIdentity(line, config, next, f) ==
    LET found == find(next + 1, line, space)
    IN IF found.st # "ok" THEN Return(FindFailure(found, line, "Identity not found"))
       ELSE ParseUser(line, config, found.end,
                      f @@ [identity |-> IF found.s = "-" THEN None ELSE Some(found.s)])

\* Parse ip
ParseIp(line, config) ==
    LET found == find(0, line, space)
    IN IF found.st # "ok" THEN Return(FindFailure(found, line, "IP not found"))
       ELSE IF ~IpAddr_parse(found.s).ok
       THEN Return(Err(LogError_new(line, "Invalid IP")))
       ELSE ParseIdentity(line, config, found.end, [ip |-> IpAddr_parse(found.s)])

\* ------------------------------------------------------------------------
\* Input lines
\* ------------------------------------------------------------------------
\* A line is rendered from one text per field of the combined-log grammar.
\* The first alternative of every field is the field of the example line of
\* the specification; the others are well-formed and malformed variants.
\* The lines parsed are the lines in which at most two fields depart from
\* the example, every prefix of the example line, and a few more.

IP == 1
IDENTITY == 2
USER == 3
TIMESTAMP == 4
METHOD == 5
FULLPATH == 6
VERSION == 7
STATUS == 8
SIZE == 9
REFERER == 10
USERAGENT == 11

Alternatives ==
    <<  <<"127.0.0.1", "::01", "::1", "127.0.0.300">>,
        <<"-", "id">>,
        <<"-", "bob">>,
        <<"10/Oct/2023:13:55:36 +0000", "10/Oct/2023:15:55:37 +0200",
          "01/Jan/1970:00:00:00 +0000", "31/Sep/2023:13:55:36 +0000">>,
        <<"GET", "PATCH", "get">>,
        <<"/a//b.html?x=1", "//a/../c.TXT?k=1&k=2", "http://evil.example",
          "http://example.com:8080/p", "http://">>,
        <<"HTTP/1.1", "HTTP/1.2">>,
        <<"200", "70000">>,
        <<"512", "-">>,
        <<"-", "http://ref.example/p?q=1", "http://">>,
        <<"Mozlila/5.0", "curl", "Bot Mozlila", "">>  >>

FieldCount == Len(Alternatives)

Example == [k \in 1..FieldCount |-> 1]

Vectors ==
    {[k \in 1..FieldCount |-> IF k = i THEN a ELSE IF k = j THEN b ELSE 1] :
        <<i, a, j, b>> \in
            {t \in (1..FieldCount) \X (1..5) \X (1..FieldCount) \X (1..5) :
                /\ t[1] <= t[3]
                /\ t[2] <= Len(Alternatives[t[1]])
                /\ t[4] <= Len(Alternatives[t[3]])
                /\ (t[1] = t[3] => t[2] = t[4])}}

Text(v, field) == Alternatives[field][v[field]]

Render(v) ==
    Text(v, IP) \o " " \o Text(v, IDENTITY) \o " " \o Text(v, USER)
      \o " [" \o Text(v, TIMESTAMP) \o "] \"" \o Text(v, METHOD)
      \o " " \o Text(v, FULLPATH) \o " " \o Text(v, VERSION)
      \o "\" " \o Text(v, STATUS) \o " " \o Text(v, SIZE)
      \o " \"" \o Text(v, REFERER) \o "\" \"" \o Text(v, USERAGENT) \o "\""

ExampleLine == Render(Example)

Prefixes == {Slice(ExampleLine, 0, n) : n \in 0..(Len(ExampleLine) - 1)}

\* A line with an empty request, a status code out of range and no size.
EmptyRequestLine ==
    "127.0.0.1 - - [10/Oct/2023:13:55:37 +0000] \"\" 70000 - \"-\" \"curl\""

\* A request whose quoted part has no " HTTP/" while the user agent has, and
\* the line with the empty request.
OtherLines ==
    {"::1 - - [10/Oct/2023:13:55:37 +0000] \"GET /a\" 200 5 \"-\" \"x HTTP/1.1\" 200 512 \"-\" \"curl\"",
     EmptyRequestLine}

\* The inputs of LogEntry::parse: the line and, for a rendered line, the
\* alternatives it was rendered from.
Inputs ==
    {[line |-> Render(v), v |-> v] : v \in Vectors}
      \cup {[line |-> l, v |-> <<>>] : l \in Prefixes \cup OtherLines}

UserAgents == {Alternatives[USERAGENT][k] : k \in 1..3} \cup {"curl"}
IpAddrs == {IpAddr_parse(Alternatives[IP][k]) : k \in 1..3}

\* The results the user-agent extractor can give for a raw string.
NoMatch == [ua |-> None, os |-> None, device |-> None]
Match == [ua |-> Some("Chrome"), os |-> Some("Mac OS X"), device |-> Some("Mac")]
Extractors == {[u \in UserAgents |-> x] : x \in {NoMatch, Match}}

\* The geolocation databases: an empty one, and one that holds the loopback
\* addresses.
Readers ==
    {<<>>, [k \in {"127.0.0.1", "::1"} |-> [country |-> Some("ES"), continent |-> Some("EU")]]}

OriginText == "https://example.com"
\* The watermarks: that of an empty sink, and the timestamp of the example
\* line, in microseconds since the epoch.
ExampleSecs == DateTime_parse(Alternatives[TIMESTAMP][1]).secs
Watermarks == {[secs |-> 0, micros |-> 0], [secs |-> ExampleSecs, micros |-> 0]}

Lines == {in.line : in \in Inputs}
Configs == {ParseConfig_new(w, OriginText) : w \in Watermarks}

\* What the field parsers make of each alternative: the instant of a
\* timestamp, the request target joined to the origin, the referer as a URL,
\* and the alternatives of each field that its own parser accepts.
Origin == Url_parse(OriginText, None)
Instant == [k \in DOMAIN Alternatives[TIMESTAMP] |->
              DateTime_parse(Alternatives[TIMESTAMP][k])]
Target == [k \in DOMAIN Alternatives[FULLPATH] |->
              Url_parse(CollapseLeadingSlashes(Alternatives[FULLPATH][k]), Some(Origin))]
RefererUrl == [k \in DOMAIN Alternatives[REFERER] |->
              Url_parse(Alternatives[REFERER][k], None)]
Accepted ==
    [field \in 1..FieldCount |->
        {k \in DOMAIN Alternatives[field] :
            LET text == Alternatives[field][k]
            IN CASE field = IP -> IpAddr_parse(text).ok
                 [] field = TIMESTAMP -> Instant[k].ok
                 [] field = METHOD -> text \in HttpMethods
                 [] field = FULLPATH -> Target[k].ok /\ Target[k].host = Origin.host
                 [] field = VERSION -> text \in HttpVersions
                 [] field = STATUS -> U16_parse(text) # None
                 [] field = SIZE -> Usize_parse(text) # None
                 [] OTHER -> TRUE}]

\* ParseIp is a function of the line and the config alone; Scanned is its
\* graph over the lines and configs above, and Scan its value for one of them.
Scanned == [c \in Configs |-> [l \in Lines |-> ParseIp(l, c)]]

Scan(line, config) == Scanned[config][line]

\* Variant: the address is looked up as soon as it has been read.
parse_LookupFirst(line, services, parser, reader, config) ==
    LET found == find(0, line, space)
        ip == IpAddr_parse(found.s)
        looked == IF found.st = "ok" /\ ip.ok
                  THEN get_geolocation(services, reader, ip).services
                  ELSE services
        Rest(scanned) ==
            IF scanned.done
            THEN [services |-> looked, result |-> scanned.result]
            ELSE Enrich(line, looked, parser, reader, scanned.fields)
    IN Rest(Scan(line, config))

\* LogEntry::parse(line, services, config): the result and the services
\* after the call.
parse(line, services, parser, reader, config) ==
    LET Rest(scanned) ==
            IF scanned.done
            THEN [services |-> services, result |-> scanned.result]
            ELSE Enrich(line, services, parser, reader, scanned.fields)
    IN Rest(Scan(line, config))

\* ------------------------------------------------------------------------
\* State
\* ------------------------------------------------------------------------

VARIABLES
    parser_services,  \* ParserServices: agents, geolocations, and call counts
    agents_parser,    \* ParserServices.agents_parser
    ip_reader,        \* ParserServices.ip_reader
    parse_config,     \* ParseConfig
    call,             \* the call that returned last: op, line, v
    returned,         \* what it returned
    before,           \* the ParserServices when that call started
    logged,           \* the user agents and addresses of the calls that gave a LogEntry
    lines,            \* main.rs: the lines of the log file
    line_no,          \* main.rs: how many of them the loop has taken
    rows,             \* main.rs: the rows appended to the table log
    error_file,       \* main.rs: the lines written to the error file
    new,              \* main.rs: the counter of added logs
    existing,         \* main.rs: the counter of skipped logs
    pc,               \* "lib", or the driver: "start", "loop", "finished", "panicked"
    catalog,          \* main.rs: the types and tables of the database file
    run               \* main.rs: how many times the program has been started

libVars == <<parser_services, agents_parser, ip_reader, parse_config, call, returned, before,
            logged>>
driverVars == <<lines, line_no, rows, error_file, new, existing, pc, catalog, run>>
vars == <<libVars, driverVars>>

MaxCalls == 2
MaxLines == 2
MaxRuns == 2

NoCall == [op |-> "none", line |-> "", v |-> <<>>]

\* The raw user agents (the non-empty ones) and the addresses, as text, of
\* the lines for which LogEntry::parse returned a LogEntry.
NoneLogged == [user_agents |-> {}, ips |-> {}]
Logged(log, result) ==
    IF result.tag # "Ok" THEN log
    ELSE [user_agents |-> log.user_agents \cup
                            (IF result.entry.user_agent = None THEN {}
                             ELSE {result.entry.user_agent[1]}),
          ips |-> log.ips \cup {IpAddr_to_string(result.entry.ip)}]

\* ------------------------------------------------------------------------
\* The library: calls on one ParserServices
\* ------------------------------------------------------------------------

Init ==
    /\ parser_services = ParserServices_new
    /\ agents_parser \in Extractors
    /\ ip_reader \in Readers
    /\ parse_config \in Configs
    /\ call = NoCall
    /\ returned = Panic
    /\ before = ParserServices_new
    /\ logged = NoneLogged
    /\ lines = <<>>
    /\ line_no = 0
    /\ rows = <<>>
    /\ error_file = <<>>
    /\ new = 0
    /\ existing = 0
    /\ pc = "lib"
    /\ catalog = {}
    /\ run = 0

Capped(svc) ==
    /\ \A k \in DOMAIN svc.extracts : svc.extracts[k] <= MaxCalls
    /\ \A k \in DOMAIN svc.lookups : svc.lookups[k] <= MaxCalls

\* LogEntry::parse(line, &mut services, &config)
Parse(in) ==
    /\ pc = "lib"
    /\ call.op = "none"
    /\ LET Returned(r) ==
               /\ Capped(r.services)
               /\ parser_services' = r.services
               /\ returned' = r.result
               /\ logged' = Logged(logged, r.result)
       IN Returned(parse(in.line, parser_services, agents_parser, ip_reader, parse_config))
    /\ call' = [op |-> "parse", line |-> in.line, v |-> in.v]
    /\ before' = parser_services
    /\ UNCHANGED <<agents_parser, ip_reader, parse_config, driverVars>>

\* services.get_agent(user_agent)
GetAgent(user_agent) ==
    /\ pc = "lib"
    /\ call.op = "none"
    /\ LET r == get_agent(parser_services, agents_parser, user_agent)
       IN /\ Capped(r.services)
          /\ parser_services' = r.services
          /\ returned' = [tag |-> "Agent", entry |-> r.value, err |-> NoError]
    /\ call' = [op |-> "get_agent", line |-> user_agent, v |-> <<>>]
    /\ before' = parser_services
    /\ UNCHANGED <<agents_parser, ip_reader, parse_config, logged, driverVars>>

\* services.get_geolocation(&ip)
GetGeolocation(ip) ==
    /\ pc = "lib"
    /\ call.op = "none"
    /\ LET r == get_geolocation(parser_services, ip_reader, ip)
       IN /\ Capped(r.services)
          /\ parser_services' = r.services
          /\ returned' = [tag |-> "GeoLocation", entry |-> r.value, err |-> NoError]
    /\ call' = [op |-> "get_geolocation", line |-> IpAddr_to_string(ip), v |-> <<>>]
    /\ before' = parser_services
    /\ UNCHANGED <<agents_parser, ip_reader, parse_config, logged, driverVars>>

\* The caller takes the returned value; the services keep their caches.  A
\* call that panicked has no caller left to go on.
Consume ==
    /\ pc = "lib"
    /\ call.op # "none"
    /\ returned.tag # "panic"
    /\ call' = NoCall
    /\ returned' = Panic
    /\ before' = parser_services
    /\ UNCHANGED <<parser_services, agents_parser, ip_reader, parse_config, logged, driverVars>>

Next ==
    \/ \E in \in Inputs : Parse(in)
    \/ \E user_agent \in UserAgents : GetAgent(user_agent)
    \/ \E ip \in IpAddrs : GetGeolocation(ip)
    \/ Consume

Spec == Init /\ [][Next]_vars

\* The calls of LogEntry::parse alone, on services that no one else calls.
ParseNext ==
    \/ \E in \in Inputs : Parse(in)
    \/ Consume

ParseSpec == Init /\ [][ParseNext]_vars

\* ------------------------------------------------------------------------
\* The driver: the loop of main.rs over the lines of one file
\* ------------------------------------------------------------------------

\* The lines a log file is made of: the example line, a later request, a line
\* of 1970, a line with an invalid IP, and a line cut after the user field.
FileLines ==
    {ExampleLine,
     Render([Example EXCEPT ![TIMESTAMP] = 2]),
     Render([Example EXCEPT ![TIMESTAMP] = 3]),
     Render([Example EXCEPT ![IP] = 4]),
     "127.0.0.1 - - "}

RECURSIVE Files(_)
Files(n) ==
    IF n = 0 THEN {<<>>}
    ELSE Files(n - 1) \cup {Append(f, l) : f \in Files(n - 1), l \in FileLines}

\* What the batch of main.rs creates: the two enum types and the table.
Schema == {"METHOD", "HTTP_VERSION", "log"}

DriverInit ==
    /\ parser_services = ParserServices_new
    /\ agents_parser \in Extractors
    /\ ip_reader \in Readers
    /\ parse_config \in Configs
    /\ call = NoCall
    /\ returned = Panic
    /\ before = ParserServices_new
    /\ logged = NoneLogged
    /\ lines \in Files(MaxLines)
    /\ line_no = 0
    /\ rows = <<>>
    /\ error_file = <<>>
    /\ new = 0
    /\ existing = 0
    /\ pc = "loop"
    /\ catalog = Schema
    /\ run = 1

\* One turn of `for result in parse_line(lines, &mut services, config)`: the
\* next line is parsed and the result matched.  A panic of the call ends the
\* process.
ProcessLine ==
    /\ pc = "loop"
    /\ line_no < Len(lines)
    /\ LET line == lines[line_no + 1]
           Dispatch(r) ==
               /\ returned' = r.result
               /\ parser_services' = r.services
               /\ logged' = Logged(logged, r.result)
               /\ IF r.result.tag = "panic"
                  THEN /\ pc' = "panicked"
                       /\ UNCHANGED <<rows, error_file, new, existing>>
                  ELSE IF r.result.tag = "Err" /\ ~is_filtered(r.result.err)
                  THEN /\ error_file' = Append(error_file, LogError_fmt(r.result.err))
                       /\ UNCHANGED <<rows, new, existing, pc>>
                  ELSE IF r.result.tag = "Err"
                  THEN /\ existing' = existing + 1
                       /\ UNCHANGED <<rows, error_file, new, pc>>
                  ELSE /\ rows' = Append(rows, r.result.entry)
                       /\ new' = new + 1
                       /\ UNCHANGED <<error_file, existing, pc>>
       IN /\ line_no' = line_no + 1
          /\ call' = [op |-> "parse", line |-> line, v |-> <<>>]
          /\ before' = parser_services
          /\ Dispatch(parse(line, parser_services, agents_parser, ip_reader, parse_config))
    /\ UNCHANGED <<agents_parser, ip_reader, parse_config, lines, catalog, run>>

\* The iterator is exhausted: "Process finished!"
Finish ==
    /\ pc = "loop"
    /\ line_no = Len(lines)
    /\ pc' = "finished"
    /\ UNCHANGED <<libVars, lines, line_no, rows, error_file, new, existing, catalog, run>>

DriverNext ==
    \/ ProcessLine
    \/ Finish

DriverSpec == DriverInit /\ [][DriverNext]_vars

\* ------------------------------------------------------------------------
\* The program run again on the same log file and database file
\* ------------------------------------------------------------------------

\* A log file, and no database file yet.
RerunInit ==
    /\ parser_services = ParserServices_new
    /\ agents_parser \in Extractors
    /\ ip_reader \in Readers
    /\ parse_config = ParseConfig_new([secs |-> 0, micros |-> 0], OriginText)
    /\ call = NoCall
    /\ returned = Panic
    /\ before = ParserServices_new
    /\ logged = NoneLogged
    /\ lines \in Files(MaxLines)
    /\ line_no = 0
    /\ rows = <<>>
    /\ error_file = <<>>
    /\ new = 0
    /\ existing = 0
    /\ pc = "start"
    /\ catalog = {}
    /\ run = 0

\* SELECT timestamp FROM log ORDER BY timestamp DESC LIMIT 1, in microseconds
\* since the epoch; 0 for a table without rows.
LastTimestamp(table) ==
    IF table = <<>> THEN [secs |-> 0, micros |-> 0]
    ELSE [secs |-> Max({table[k].timestamp : k \in 1..Len(table)}), micros |-> 0]

\* fn parse up to the loop: the batch that creates the types and the table,
\* the watermark, the config, the error file emptied, the services and the
\* counters.  CREATE TYPE has no IF NOT EXISTS: on a database file that holds
\* the type already the batch fails and its unwrap() panics.
Setup ==
    /\ pc \in {"start", "finished"}
    /\ run < MaxRuns
    /\ run' = run + 1
    /\ IF "METHOD" \in catalog \/ "HTTP_VERSION" \in catalog
       THEN /\ pc' = "panicked"
            /\ UNCHANGED <<libVars, lines, line_no, rows, error_file, new, existing, catalog>>
       ELSE /\ catalog' = catalog \cup Schema
            /\ parse_config' = ParseConfig_new(LastTimestamp(rows), OriginText)
            /\ error_file' = <<>>
            /\ parser_services' = ParserServices_new
            /\ before' = ParserServices_new
            /\ logged' = NoneLogged
            /\ call' = NoCall
            /\ returned' = Panic
            /\ new' = 0
            /\ existing' = 0
            /\ line_no' = 0
            /\ pc' = "loop"
            /\ UNCHANGED <<agents_parser, ip_reader, lines, rows>>

RerunNext ==
    \/ Setup
    \/ ProcessLine
    \/ Finish

RerunSpec == RerunInit /\ [][RerunNext]_vars

\* ------------------------------------------------------------------------
\* Properties
\* ------------------------------------------------------------------------
\* A call of LogEntry::parse on a rendered line has returned: call.v names
\* the alternatives the line was rendered from.

\* C1, as stated: every line whose timestamp is at or below the watermark
\* gets the filtered outcome, whatever the validity of its other fields, the
\* IP field included.
C1_FilteredWhateverOtherFields ==
    (/\ pc = "lib"
     /\ call.op = "parse"
     /\ call.v # <<>>
     /\ Instant[call.v[TIMESTAMP]].ok
     /\ Instant[call.v[TIMESTAMP]].secs <= parse_config.timestamp.secs)
    => (returned.tag = "Err" /\ is_filtered(returned.err))

\* C1, amended: a line whose IP field is a valid address and whose timestamp
\* is at or below the watermark gets the filtered outcome, whatever its
\* identity and user fields and whatever the validity of the fields after the
\* timestamp; a line whose IP field is not an address gets "Invalid IP",
\* whatever its timestamp.
C1_FilteredAfterValidIp ==
    (/\ pc = "lib"
     /\ call.op = "parse"
     /\ call.v # <<>>
     /\ Instant[call.v[TIMESTAMP]].ok
     /\ Instant[call.v[TIMESTAMP]].secs <= parse_config.timestamp.secs)
    => IF call.v[IP] \in Accepted[IP]
       THEN returned.tag = "Err" /\ is_filtered(returned.err)
       ELSE /\ returned.tag = "Err"
            /\ ~is_filtered(returned.err)
            /\ returned.err.error = "Invalid IP"

\* A line at the watermark with a valid IP and a status code out of range
\* has been parsed, and was filtered.
C1_Witness ==
    /\ pc = "lib"
    /\ call.op = "parse"
    /\ call.v # <<>>
    /\ call.v[IP] \in Accepted[IP]
    /\ call.v[STATUS] \notin Accepted[STATUS]
    /\ Instant[call.v[TIMESTAMP]].ok
    /\ Instant[call.v[TIMESTAMP]].secs = parse_config.timestamp.secs
    /\ returned.tag = "Err"
    /\ is_filtered(returned.err)

\* C2: every call of LogEntry::parse returns a LogEntry, a filtered LogError,
\* or a non-filtered LogError with a reason; it never panics.
C2_ThreeOutcomes ==
    call.op = "parse" =>
        \/ returned.tag = "Ok"
        \/ returned.tag = "Err" /\ is_filtered(returned.err)
        \/ returned.tag = "Err" /\ ~is_filtered(returned.err) /\ returned.err.error # ""

\* C3: each underlying service is invoked exactly once per distinct key: the
\* first call with a key invokes the service once and stores what it
\* returns, and a later call with that key returns the stored value and
\* leaves the caches and the invocation counts as they were.
C3_OncePerKey ==
    /\ DOMAIN parser_services.extracts = DOMAIN parser_services.agents
    /\ DOMAIN parser_services.lookups = DOMAIN parser_services.geolocations
    /\ \A k \in DOMAIN parser_services.extracts : parser_services.extracts[k] = 1
    /\ \A k \in DOMAIN parser_services.lookups : parser_services.lookups[k] = 1
    /\ call.op = "get_agent" =>
          IF call.line \in DOMAIN before.agents
          THEN /\ parser_services = before
               /\ returned.entry = before.agents[call.line]
          ELSE /\ DOMAIN parser_services.agents = DOMAIN before.agents \cup {call.line}
               /\ parser_services.agents[call.line] = returned.entry
               /\ \A k \in DOMAIN before.agents :
                     parser_services.agents[k] = before.agents[k]
               /\ parser_services.geolocations = before.geolocations
    /\ call.op = "get_geolocation" =>
          IF call.line \in DOMAIN before.geolocations
          THEN /\ parser_services = before
               /\ returned.entry = before.geolocations[call.line]
          ELSE /\ DOMAIN parser_services.geolocations =
                     DOMAIN before.geolocations \cup {call.line}
               /\ parser_services.geolocations[call.line] = returned.entry
               /\ \A k \in DOMAIN before.geolocations :
                     parser_services.geolocations[k] = before.geolocations[k]
               /\ parser_services.agents = before.agents

\* get_geolocation has returned for a key that was cached, on services whose
\* user-agent cache is in use too.
C3_Witness ==
    /\ call.op = "get_geolocation"
    /\ call.line \in DOMAIN before.geolocations
    /\ DOMAIN before.agents # {}
    /\ returned.entry = before.geolocations[call.line]

\* C4: a line whose referer is not a URL and whose other fields are valid,
\* with a timestamp above the watermark, parses to a LogEntry whose five
\* referer fields are absent.
C4_RefererNotFatal ==
    (/\ pc = "lib"
     /\ call.op = "parse"
     /\ call.v # <<>>
     /\ ~RefererUrl[call.v[REFERER]].ok
     /\ \A field \in 1..FieldCount : call.v[field] \in Accepted[field]
     /\ Instant[call.v[TIMESTAMP]].secs > parse_config.timestamp.secs)
    => /\ returned.tag = "Ok"
       /\ returned.entry.referer = None
       /\ returned.entry.referer_origin = None
       /\ returned.entry.referer_path = None
       /\ returned.entry.referer_query = None
       /\ returned.entry.referer_parsed_query = None

\* A line with the referer "http://" and a request target that needed
\* normalising has been parsed to a LogEntry.
C4_Witness ==
    /\ pc = "lib"
    /\ call.op = "parse"
    /\ call.v # <<>>
    /\ Text(call.v, REFERER) = "http://"
    /\ call.v[FULLPATH] = 2
    /\ returned.tag = "Ok"
    /\ returned.entry.referer = None

\* C5: a line that passes every check before the host check gets the error
\* "Path has a different host" exactly when the host of the request target
\* joined to the origin is not the origin's host; a foreign absolute URL is
\* rejected, one with the origin's host and another scheme and port is not.
C5_HostOnly ==
    (/\ pc = "lib"
     /\ call.op = "parse"
     /\ call.v # <<>>
     /\ \A field \in {IP, TIMESTAMP, METHOD} : call.v[field] \in Accepted[field]
     /\ Instant[call.v[TIMESTAMP]].secs > parse_config.timestamp.secs
     /\ Target[call.v[FULLPATH]].ok)
    => LET rejected == /\ returned.tag = "Err"
                       /\ ~is_filtered(returned.err)
                       /\ returned.err.error = "Path has a different host"
       IN /\ rejected <=> Target[call.v[FULLPATH]].host # parse_config.origin.host
          /\ Text(call.v, FULLPATH) = "http://evil.example" => rejected
          /\ Text(call.v, FULLPATH) = "http://example.com:8080/p" => ~rejected

\* The request target http://example.com:8080/p has been parsed against the
\* origin https://example.com, and the line gave a LogEntry.
C5_Witness ==
    /\ pc = "lib"
    /\ call.op = "parse"
    /\ call.v # <<>>
    /\ Text(call.v, FULLPATH) = "http://example.com:8080/p"
    /\ Target[call.v[FULLPATH]].port # parse_config.origin.port
    /\ Target[call.v[FULLPATH]].scheme # parse_config.origin.scheme
    /\ returned.tag = "Ok"
    /\ returned.entry.path = "/p"

\* C6, as stated: the example line, with origin https://example.com and
\* watermark 0, parses to method GET, path /a/b.html, extension html, query
\* x=1, parsed_query {x: 1}, HTTP/1.1, status 200, size 512, no referer and
\* device "Spider".
C6_ExampleInnerSlashCollapsed ==
    (/\ call.op = "parse"
     /\ call.line = ExampleLine
     /\ parse_config = ParseConfig_new([secs |-> 0, micros |-> 0], "https://example.com"))
    => /\ returned.tag = "Ok"
       /\ returned.entry.method = "GET"
       /\ returned.entry.path = "/a/b.html"
       /\ returned.entry.extension = Some("html")
       /\ returned.entry.query = Some("x=1")
       /\ returned.entry.parsed_query = Some([k \in {"x"} |-> "1"])
       /\ returned.entry.http_version = "HTTP/1.1"
       /\ returned.entry.status_code = 200
       /\ returned.entry.size = "512"
       /\ returned.entry.referer = None
       /\ returned.entry.device = Some("Spider")

\* C6, amended: the example line parses to the same record with the path
\* /a//b.html: only slashes doubled at the start of the request target are
\* collapsed.
C6_ExampleInnerSlashKept ==
    (/\ call.op = "parse"
     /\ call.line = ExampleLine
     /\ parse_config = ParseConfig_new([secs |-> 0, micros |-> 0], "https://example.com"))
    => /\ returned.tag = "Ok"
       /\ returned.entry.method = "GET"
       /\ returned.entry.path = "/a//b.html"
       /\ returned.entry.extension = Some("html")
       /\ returned.entry.query = Some("x=1")
       /\ returned.entry.parsed_query = Some([k \in {"x"} |-> "1"])
       /\ returned.entry.http_version = "HTTP/1.1"
       /\ returned.entry.status_code = 200
       /\ returned.entry.size = "512"
       /\ returned.entry.referer = None
       /\ returned.entry.device = Some("Spider")

\* The example line has been parsed with watermark 0 and gave a LogEntry.
C6_Witness ==
    /\ call.op = "parse"
    /\ call.line = ExampleLine
    /\ parse_config.timestamp = [secs |-> 0, micros |-> 0]
    /\ parse_config.origin.host = Some("example.com")
    /\ returned.tag = "Ok"

\* C7: a call of LogEntry::parse that returns the filtered outcome or a
\* structural error invokes neither service and leaves both caches as they
\* were.
C7_ErrorsLeaveServices ==
    (call.op = "parse" /\ returned.tag = "Err") => parser_services = before

\* A line has been filtered by services whose caches were in use.
C7_Witness ==
    /\ call.op = "parse"
    /\ returned.tag = "Err"
    /\ is_filtered(returned.err)
    /\ DOMAIN before.agents # {}
    /\ DOMAIN before.geolocations # {}
    /\ parser_services = before

\* C8: the outcome of LogEntry::parse is a function of the line and the
\* config: whatever the caches hold after the earlier calls, it is the outcome
\* the same line has on fresh services.
C8_OutcomeOfLineAndConfig ==
    call.op = "parse" =>
        returned = parse(call.line, ParserServices_new, agents_parser, ip_reader,
                         parse_config).result

\* A line with a "Mozlila" user agent has been parsed to a LogEntry from
\* caches that held both its user agent and its address.
C8_Witness ==
    /\ call.op = "parse"
    /\ returned.tag = "Ok"
    /\ returned.entry.user_agent # None
    /\ Contains(returned.entry.user_agent[1], "Mozlila")
    /\ returned.entry.user_agent[1] \in DOMAIN before.agents
    /\ IpAddr_to_string(returned.entry.ip) \in DOMAIN before.geolocations

\* C9: every line the loop takes has exactly one effect: a LogEntry appends
\* one row, a non-filtered LogError writes the one line "Invalid entry: <raw
\* line> (<reason>)" to the error file, a filtered LogError adds one to the
\* skipped counter; and the loop goes on to the next line.
C9_OneEffectPerLine ==
    [][line_no' = line_no + 1 =>
        LET line == lines[line_no + 1]
        IN /\ pc' = "loop"
           /\ \/ /\ returned'.tag = "Ok"
                 /\ rows' = Append(rows, returned'.entry)
                 /\ new' = new + 1
                 /\ UNCHANGED <<error_file, existing>>
              \/ /\ returned'.tag = "Err"
                 /\ ~is_filtered(returned'.err)
                 /\ error_file' = Append(error_file,
                        "Invalid entry: " \o line \o " (" \o returned'.err.error \o ")")
                 /\ UNCHANGED <<rows, new, existing>>
              \/ /\ returned'.tag = "Err"
                 /\ is_filtered(returned'.err)
                 /\ existing' = existing + 1
                 /\ UNCHANGED <<rows, new, error_file>>]_vars

\* C10: an Agent returned by get_agent for a raw string that contains
\* "Mozlila" has the device family "Spider", on the first call and on cached
\* calls; for any other raw string it has the device family the service gave.
C10_SpiderOverride ==
    call.op = "get_agent" =>
        IF Occurrences(call.line, "Mozlila", 0) # {}
        THEN returned.entry.device = Some("Spider")
        ELSE returned.entry.device = Extract(agents_parser, call.line).device

\* get_agent has returned from the cache for "Bot Mozlila", a raw string
\* that the service gives the device family "Mac".
C10_Witness ==
    /\ call.op = "get_agent"
    /\ call.line = "Bot Mozlila"
    /\ call.line \in DOMAIN before.agents
    /\ Extract(agents_parser, call.line).device = Some("Mac")
    /\ returned.entry.device = Some("Spider")

\* C11: the watermark of a run is the largest timestamp stored when the run
\* starts (0 for an empty table) and stays so during the run; a second run
\* over the same file, after a first run that completed, goes through the
\* file again, filters every line the first run appended, and appends no row.
C11_SecondRunFilters ==
    /\ pc \in {"loop", "finished"} =>
          parse_config.timestamp.secs =
              LastTimestamp(SubSeq(rows, 1, Len(rows) - new)).secs
    /\ run = 2 =>
          /\ pc \in {"loop", "finished"}
          /\ new = 0
          /\ pc = "finished" => existing >= Len(rows)

\* C12: a line that breaks several validation rules gets the reason of the
\* first broken rule in the order IP, datetime and watermark filter, empty
\* request, method, path validity, path host, HTTP version, status code,
\* size; a line that breaks none and is above the watermark gives a LogEntry.
C12_FirstFailureWins ==
    /\ (pc = "lib" /\ call.op = "parse" /\ call.v # <<>>) =>
          LET broken == {field \in 1..FieldCount : call.v[field] \notin Accepted[field]}
              first == IF broken = {} THEN 0 ELSE Min(broken)
              old == /\ Instant[call.v[TIMESTAMP]].ok
                     /\ Instant[call.v[TIMESTAMP]].secs <= parse_config.timestamp.secs
              reason ==
                  CASE first = IP -> "Invalid IP"
                    [] first = TIMESTAMP -> "Invalid datetime"
                    [] first = METHOD -> "Invalid HTTP method"
                    [] first = FULLPATH ->
                          IF Target[call.v[FULLPATH]].ok
                          THEN "Path has a different host" ELSE "Path not valid"
                    [] first = VERSION -> "Invalid HTTP version"
                    [] first = STATUS -> "Invalid status code"
                    [] first = SIZE -> "Invalid size"
                    [] OTHER -> ""
          IN IF old /\ first # IP
             THEN returned.tag = "Err" /\ is_filtered(returned.err)
             ELSE IF first = 0
             THEN returned.tag = "Ok"
             ELSE /\ returned.tag = "Err"
                  /\ ~is_filtered(returned.err)
                  /\ returned.err.error = reason
    /\ (call.op = "parse" /\ call.line = EmptyRequestLine) =>
          /\ returned.tag = "Err"
          /\ ~is_filtered(returned.err)
          /\ returned.err.error = "Empty request"

\* A line with the method "get" and the status code 70000, above the
\* watermark, has been parsed and got the reason of the method.
C12_Witness ==
    /\ pc = "lib"
    /\ call.op = "parse"
    /\ call.v # <<>>
    /\ call.v[METHOD] \notin Accepted[METHOD]
    /\ call.v[STATUS] \notin Accepted[STATUS]
    /\ returned.tag = "Err"
    /\ returned.err.error = "Invalid HTTP method"

\* C13: in every LogEntry the method, the raw path and the HTTP version come
\* from the quoted request, the text between the first quote of the line and
\* the next one: the request holds " HTTP/" after its method, the method is
\* the text before its first space and the version the text after " ".
C13_RequestInsideQuotes ==
    (call.op = "parse" /\ returned.tag = "Ok") =>
        LET open == IndexOf(call.line, quote, 0)
            close == IndexOf(call.line, quote, open + 1)
            request == Slice(call.line, open + 1, close)
            methodEnd == IndexOf(request, space, 0)
            pathEnd == IndexOf(request, http, methodEnd + 1)
        IN /\ methodEnd >= 0
           /\ pathEnd >= 0
           /\ returned.entry.method = Slice(request, 0, methodEnd)
           /\ returned.entry.http_version = From(request, pathEnd + 1)

\* C14: after any sequence of LogEntry::parse calls on services that started
\* with empty caches, the keys of the user-agent cache are the non-empty raw
\* user agents of the lines that gave a LogEntry, the keys of the
\* geolocation cache are the canonical texts of their addresses, and the
\* last call has removed or replaced no entry.
C14_CacheKeys ==
    /\ DOMAIN parser_services.agents = logged.user_agents
    /\ DOMAIN parser_services.geolocations = logged.ips
    /\ \A k \in DOMAIN before.agents :
          /\ k \in DOMAIN parser_services.agents
          /\ parser_services.agents[k] = before.agents[k]
    /\ \A k \in DOMAIN before.geolocations :
          /\ k \in DOMAIN parser_services.geolocations
          /\ parser_services.geolocations[k] = before.geolocations[k]

\* A line without user agent, from ::01, has given a LogEntry on services
\* that held a user agent and the other address, and "::1" became a key.
C14_Witness ==
    /\ pc = "lib"
    /\ call.op = "parse"
    /\ returned.tag = "Ok"
    /\ returned.entry.user_agent = None
    /\ Occurrences(call.line, "::01 ", 0) = {0}
    /\ before.agents # <<>>
    /\ DOMAIN before.geolocations = {"127.0.0.1"}
    /\ DOMAIN parser_services.geolocations = {"127.0.0.1", "::1"}
    /\ logged.ips = {"127.0.0.1", "::1"}

====
